---- MODULE Spec2Model ----
(***************************************************************************)
(* Model of the prompt store (backend/app/services/prompt_manager.py), of   *)
(* the generation gateway (backend/app/services/ai_service.py: template     *)
(* lookup, formatting, the retry loop of _make_ai_request, reply parsing)   *)
(* of plan evolution (backend/app/services/plan_evolution.py, with the     *)
(* create_plan route of backend/app/routes/plan.py), of the approval of an  *)
(* analysis (backend/app/routes/workouts.py, tui/services/                  *)
(* workout_service.py) and of the Garmin sync                               *)
(* (backend/app/services/workout_sync.py).                                  *)
(*                                                                          *)
(* Storage.  Every request gets its own AsyncSession (database.get_db), so  *)
(* a call's statements run inside its own transaction: an UPDATE issued by  *)
(* db.execute is pending in the session until db.commit(), and becomes      *)
(* visible to the other sessions at the commit.  Rows touched by a pending  *)
(* UPDATE are write-locked until the commit (the models use PostgreSQL      *)
(* column types, models/base.py:5), so a second UPDATE on the same rows     *)
(* waits; it is modelled as running once the lock is free.  There is no     *)
(* uniqueness constraint on the prompts table (models/prompt.py:5-13).      *)
(*                                                                          *)
(* Spec        concurrent create / activate calls, statement by statement   *)
(* SpecSeq     the same calls and the two reads, one call at a time         *)
(* SpecGateway  _make_ai_request against an unreliable endpoint             *)
(* SpecParse    _parse_plan_response on each reply                          *)
(* SpecGenerate evolve_plan / generate_plan calls over each prompts table   *)
(* SpecEvolve   concurrent evolve_plan_from_analysis calls and create_plan  *)
(* SpecCancel   SpecGateway with the cancellation of the awaiting task      *)
(* SpecSync     sync_recent_activities runs, with weak fairness             *)
(* SpecApprove  approve_analysis calls, one at a time, with their evolution *)
(* SpecLineage  create_plan, evolve calls and get_plan_evolution_history    *)
(***************************************************************************)
EXTENDS Integers, Sequences, FiniteSets, TLC

\* ----------------------------------------------------------------- bounds
MaxPrompts == 3

\* two request sessions
Sessions == {"s1", "s2"}
ActionTypes == {"plan_evolution", "workout_analysis"}
PromptTexts == {"t1", "t2"}
\* ids a caller may pass to activate: every row that can exist, and one that cannot
PromptIds == 1..(MaxPrompts + 1)

VARIABLES
    prompts,      \* the committed prompts table: row id = position
    pc,           \* per session: the statement the call in flight reaches next
    args,         \* per session: the arguments of the call in flight
    deact,        \* per session: ids hit by the session's pending UPDATE ... SET active = False
    max_version,  \* per session: the local max_version of create_prompt_version
    ret,          \* what the call that just completed returned, and the commits it made
    last_read,    \* what the get_active_prompt / get_prompt_history that just ran returned
    last_active,  \* history: per action type, the row most recently made active (0: none)
    g_pc,         \* _make_ai_request: idle, post, sleep, returned, raised
    attempt,      \* the loop variable of `for attempt in range(3)`
    post_count,   \* client.post calls made by the current call
    responses,    \* what each client.post of the current call met, in order
    sleeps,       \* the asyncio.sleep delays of the current call, in order
    g_result,     \* what the call returned or raised
    parse_in,     \* _parse_plan_response: the reply handed to it
    parse_out,    \* _parse_plan_response: what it returned or raised
    gen_pc,       \* AIService.evolve_plan / generate_plan: idle, lookup, request, done
    gen_call,     \* the method called and the context it formats the template with
    gen_prompt,   \* the rendered prompt handed to _make_ai_request
    gen_out,      \* what the method returned or raised
    plans,        \* the committed plans table: row id = position
    ev,           \* per session: the evolve_plan_from_analysis call in flight
    ev_ret,       \* what the evolve_plan_from_analysis call that just ended gave back
    sync_db,      \* committed: the garmin_sync_log rows and the number of workouts rows
    sync,         \* the sync_recent_activities run in flight
    sync_ret,     \* what the run that just ended returned or raised
    analyses,     \* committed rows of the analyses table, index = id
    ap,           \* the approve_analysis request in flight
    ap_ret,       \* what the approve_analysis call that just ended gave back
    plan_read     \* what the get_plan_evolution_history call that just ended returned

pvars == <<prompts, pc, args, deact, max_version, ret, last_read, last_active>>

gvars == <<g_pc, attempt, post_count, responses, sleeps, g_result>>
rvars == <<parse_in, parse_out>>
nvars == <<gen_pc, gen_call, gen_prompt, gen_out>>
evars == <<plans, ev, ev_ret>>
svars == <<sync_db, sync, sync_ret>>
avars == <<analyses, ap, ap_ret>>
lvars == <<plan_read>>
yvars == <<svars, avars, lvars>>
xvars == <<rvars, nvars, evars, yvars>>
vars == <<prompts, pc, args, deact, max_version, ret, last_read, last_active,
          g_pc, attempt, post_count, responses, sleeps, g_result,
          parse_in, parse_out, gen_pc, gen_call, gen_prompt, gen_out,
          plans, ev, ev_ret, sync_db, sync, sync_ret,
          analyses, ap, ap_ret, plan_read>>

NoArgs == [action_type |-> "-", prompt_text |-> "-", prompt_id |-> 0]
NoRet == [op |-> "-", arg |-> 0, val |-> 0, commits |-> 0]
NoRead == [op |-> "-", action_type |-> "-", text |-> <<>>, rows |-> <<>>]

\* ------------------------------------------------------- the prompts table
RowIds(store) == 1..Len(store)

RowsOf(store, action_type) ==
    {i \in RowIds(store) : store[i].action_type = action_type}

ActiveRowsOf(store, action_type) ==
    {i \in RowsOf(store, action_type) : store[i].active}

SetMax(S) == CHOOSE x \in S : \A y \in S : y <= x

\* faulty variants: an UPDATE without its WHERE clause; no UPDATE at all
DeactivateTargets_AllRows(store, action_type) == RowIds(store)
DeactivateTargets_None(store, action_type) == {}
\* update(Prompt).where(Prompt.action_type == action_type): the rows the UPDATE hits
DeactivateTargets(store, action_type) == RowsOf(store, action_type)

\* .values(active=False), as it reaches the table when the session commits
ApplyDeactivate(store, ids) ==
    [i \in RowIds(store) |->
        IF i \in ids THEN [store[i] EXCEPT !.active = FALSE] ELSE store[i]]

\* select(func.max(Prompt.version)).where(...); result.scalar() or 0
MaxVersion(store, action_type) ==
    IF RowsOf(store, action_type) = {} THEN 0
    ELSE SetMax({store[i].version : i \in RowsOf(store, action_type)})

\* faulty variant: the new row is inserted with active = False
NewPrompt_Inactive(action_type, prompt_text, maxv) ==
    [action_type |-> action_type, prompt_text |-> prompt_text,
     version |-> maxv + 1, active |-> FALSE]
\* Prompt(action_type=..., prompt_text=..., version=max_version + 1, active=True)
\* (the model column is an opaque pass-through and is left out)
NewPrompt(action_type, prompt_text, maxv) ==
    [action_type |-> action_type, prompt_text |-> prompt_text,
     version |-> maxv + 1, active |-> TRUE]

\* db.get(Prompt, prompt_id): is there such a row
PromptFound(store, prompt_id) == prompt_id \in RowIds(store)

\* A row is write-locked by another session's pending UPDATE
LockedByOther(s, ids) == \E t \in Sessions \ {s} : deact[t] \cap ids # {}

\* faulty variant: the query without Prompt.active == True
ActiveQuery_IgnoresActive(store, action_type) == RowsOf(store, action_type)
\* get_active_prompt: the rows the query selects.  Every caller in the repository
\* leaves model at its default None, so the model filter of lines 21-22 is not taken.
ActiveQuery(store, action_type) == ActiveRowsOf(store, action_type)

\* result.scalar_one_or_none(); prompt.prompt_text if prompt else None
\* (scalar_one_or_none raises MultipleResultsFound on more than one row)
get_active_prompt(store, action_type) ==
    LET hit == ActiveQuery(store, action_type)
    IN  IF hit = {} THEN <<"None">>
        ELSE IF Cardinality(hit) = 1 THEN <<"text", store[CHOOSE i \in hit : TRUE].prompt_text>>
        ELSE <<"MultipleResultsFound">>

\* faulty variant: order_by(Prompt.version), ascending
OrderedDesc_Ascending(store, ids) ==
    {q \in [1..Cardinality(ids) -> ids] :
        /\ \A i, j \in DOMAIN q : i # j => q[i] # q[j]
        /\ \A i, j \in DOMAIN q : i < j => store[q[i]].version <= store[q[j]].version}
\* order_by(Prompt.version.desc()) over a set of rows: every order the database may
\* return (rows of equal version come in either order)
OrderedDesc(store, ids) ==
    {q \in [1..Cardinality(ids) -> ids] :
        /\ \A i, j \in DOMAIN q : i # j => q[i] # q[j]
        /\ \A i, j \in DOMAIN q : i < j => store[q[i]].version >= store[q[j]].version}

\* get_prompt_history: select(Prompt).where(action_type == ...).order_by(version.desc())
HistoryQuery(store, action_type) == RowsOf(store, action_type)

get_prompt_history(store, action_type) ==
    OrderedDesc(store, HistoryQuery(store, action_type))

\* faulty variant: the route ignores the manager's result
ActivateRouteStatus_AlwaysOk(success) == 200
\* routes/prompts.py activate_prompt_version: 404 when the manager returns False
ActivateRouteStatus(success) == IF success THEN 200 ELSE 404

\* ------------------------------------------------------------------ Init
PromptInit ==
    /\ prompts = <<>>
    /\ pc = [s \in Sessions |-> "idle"]
    /\ args = [s \in Sessions |-> NoArgs]
    /\ deact = [s \in Sessions |-> {}]
    /\ max_version = [s \in Sessions |-> 0]
    /\ ret = NoRet
    /\ last_read = NoRead
    /\ last_active = [a \in ActionTypes |-> 0]

AllIdle == \A s \in Sessions : pc[s] = "idle"

\* ------------------------------------------- create_prompt_version, by statement
\* lines 36-40: the call starts and its UPDATE runs
CreateDeactivate(s, action_type, prompt_text) ==
    /\ pc[s] = "idle"
    /\ Len(prompts) < MaxPrompts
    /\ ~LockedByOther(s, DeactivateTargets(prompts, action_type))
    /\ args' = [args EXCEPT ![s] = [action_type |-> action_type, prompt_text |-> prompt_text,
                                    prompt_id |-> 0]]
    /\ deact' = [deact EXCEPT ![s] = DeactivateTargets(prompts, action_type)]
    /\ ret' = NoRet
    /\ last_read' = NoRead
    /\ pc' = [pc EXCEPT ![s] = "create_select_max"]
    /\ UNCHANGED <<prompts, max_version, last_active>>

\* lines 43-47
CreateSelectMax(s) ==
    /\ pc[s] = "create_select_max"
    /\ max_version' = [max_version EXCEPT ![s] = MaxVersion(prompts, args[s].action_type)]
    /\ pc' = [pc EXCEPT ![s] = "create_commit"]
    /\ ret' = NoRet
    /\ last_read' = NoRead
    /\ UNCHANGED <<prompts, args, deact, last_active>>

\* lines 50-63: add, commit, refresh, return
CreateCommit(s) ==
    /\ pc[s] = "create_commit"
    /\ Len(prompts) < MaxPrompts
    /\ prompts' = Append(ApplyDeactivate(prompts, deact[s]),
                         NewPrompt(args[s].action_type, args[s].prompt_text, max_version[s]))
    /\ last_active' = [last_active EXCEPT ![args[s].action_type] = Len(prompts) + 1]
    /\ ret' = [op |-> "create", arg |-> 0, val |-> Len(prompts) + 1, commits |-> 1]
    /\ last_read' = NoRead
    /\ deact' = [deact EXCEPT ![s] = {}]
    /\ max_version' = [max_version EXCEPT ![s] = 0]
    /\ args' = [args EXCEPT ![s] = NoArgs]
    /\ pc' = [pc EXCEPT ![s] = "idle"]

\* ----------------------------------------- activate_prompt_version, by statement
\* lines 77-79, found
ActivateGet(s, prompt_id) ==
    /\ pc[s] = "idle"
    /\ PromptFound(prompts, prompt_id)
    /\ args' = [args EXCEPT ![s] = [action_type |-> prompts[prompt_id].action_type,
                                    prompt_text |-> "-", prompt_id |-> prompt_id]]
    /\ ret' = NoRet
    /\ last_read' = NoRead
    /\ pc' = [pc EXCEPT ![s] = "activate_update"]
    /\ UNCHANGED <<prompts, deact, max_version, last_active>>

\* lines 77-79, not found: return False (the route answers 404)
ActivateNotFound(s, prompt_id) ==
    /\ pc[s] = "idle"
    /\ ~PromptFound(prompts, prompt_id)
    /\ ret' = [op |-> "activate", arg |-> prompt_id,
                val |-> ActivateRouteStatus(FALSE), commits |-> 0]
    /\ last_read' = NoRead
    /\ UNCHANGED <<prompts, pc, args, deact, max_version, last_active>>

\* lines 81-85
ActivateDeactivate(s) ==
    /\ pc[s] = "activate_update"
    /\ ~LockedByOther(s, DeactivateTargets(prompts, args[s].action_type))
    /\ deact' = [deact EXCEPT ![s] = DeactivateTargets(prompts, args[s].action_type)]
    /\ pc' = [pc EXCEPT ![s] = "activate_commit"]
    /\ ret' = NoRet
    /\ last_read' = NoRead
    /\ UNCHANGED <<prompts, args, max_version, last_active>>

\* lines 88-92: prompt.active = True, commit, return True
ActivateCommit(s) ==
    /\ pc[s] = "activate_commit"
    /\ prompts' = [ApplyDeactivate(prompts, deact[s]) EXCEPT ![args[s].prompt_id].active = TRUE]
    /\ last_active' = [last_active EXCEPT ![args[s].action_type] = args[s].prompt_id]
    /\ ret' = [op |-> "activate", arg |-> args[s].prompt_id,
                val |-> ActivateRouteStatus(TRUE), commits |-> 1]
    /\ last_read' = NoRead
    /\ deact' = [deact EXCEPT ![s] = {}]
    /\ args' = [args EXCEPT ![s] = NoArgs]
    /\ pc' = [pc EXCEPT ![s] = "idle"]
    /\ UNCHANGED max_version

\* ------------------------------------------------------------ the two reads
\* get_active_prompt(action_type), one SELECT on the committed table
GetActive(action_type) ==
    /\ last_read' = [op |-> "get_active", action_type |-> action_type,
                     text |-> get_active_prompt(prompts, action_type),
                     rows |-> <<>>]
    /\ ret' = NoRet
    /\ UNCHANGED <<prompts, pc, args, deact, max_version, last_active>>

\* get_prompt_history(action_type), one SELECT on the committed table
GetHistory(action_type) ==
    /\ \E q \in get_prompt_history(prompts, action_type) :
          last_read' = [op |-> "get_history", action_type |-> action_type,
                        text |-> <<>>, rows |-> q]
    /\ ret' = NoRet
    /\ UNCHANGED <<prompts, pc, args, deact, max_version, last_active>>

\* ---------------------------------------------------------------------------
\* The generation gateway: AIService._make_ai_request (ai_service.py:146-172)
\* ---------------------------------------------------------------------------
Attempts == 3
LastAttempt == 2
BackoffBase == 2

Contents == {"c1", "c2"}
\* "content": null in the reply's JSON, None once response.json() has decoded it
NullContent == "None"

\* What one client.post can meet.  kind: the call raised (a transport error, or the
\* 30 s timeout) or answered; status: the HTTP status; body: whether response.json()
\* parses and has a "choices" list; choices: the message contents, choice by choice.
Response(kind, status, body, choices) ==
    [kind |-> kind, status |-> status, body |-> body, choices |-> choices]

Responses ==
    {Response("ConnectError", 0, "-", <<>>), Response("TimeoutException", 0, "-", <<>>),
     Response("answer", 500, "json", <<"c1">>),
     Response("answer", 200, "not_json", <<>>),
     Response("answer", 200, "no_choices_key", <<>>),
     Response("answer", 200, "json", <<>>)}
    \cup {Response("answer", 200, "json", <<c>>) : c \in Contents \cup {NullContent}}
    \cup {Response("answer", 200, "json", <<c, d>>) : c \in Contents, d \in Contents}

\* lines 151-166: does the try block raise
AttemptFails(r) ==
    \/ r.kind # "answer"                  \* client.post raised
    \/ r.status \notin 200..299           \* response.raise_for_status()
    \/ r.body # "json"                    \* response.json() / data["choices"]
    \/ Len(r.choices) = 0                 \* data["choices"][0]

\* faulty variant: data["choices"][-1]
ExtractContent_LastChoice(r) == r.choices[Len(r.choices)]
\* line 166: data["choices"][0]["message"]["content"]
ExtractContent(r) == r.choices[1]

\* faulty variant: if attempt == 1
IsLastAttempt_OffByOne(a) == a = LastAttempt - 1
\* line 169: if attempt == 2
IsLastAttempt(a) == a = LastAttempt

\* faulty variant: asyncio.sleep(2 * attempt)
Backoff_Linear(a) == BackoffBase * a
\* line 172: asyncio.sleep(2 ** attempt)
Backoff(a) == BackoffBase ^ a

NoResult == [kind |-> "-", content |-> "-"]

GatewayInit ==
    /\ g_pc = "idle"
    /\ attempt = 0
    /\ post_count = 0
    /\ responses = <<>>
    /\ sleeps = <<>>
    /\ g_result = NoResult

\* the call starts: line 148-149, attempt = 0
MakeAiRequest ==
    /\ g_pc \in {"idle", "returned", "raised"}
    /\ g_pc' = "post"
    /\ attempt' = 0
    /\ post_count' = 0
    /\ responses' = <<>>
    /\ sleeps' = <<>>
    /\ g_result' = NoResult

\* lines 151-166, no exception: return the content
PostSucceeds(r) ==
    /\ g_pc = "post"
    /\ ~AttemptFails(r)
    /\ post_count' = post_count + 1
    /\ responses' = Append(responses, r)
    /\ g_result' = [kind |-> "returned", content |-> ExtractContent(r)]
    /\ g_pc' = "returned"
    /\ UNCHANGED <<attempt, sleeps>>

\* lines 168-172, not the last attempt: start asyncio.sleep(2 ** attempt)
PostFailsRetry(r) ==
    /\ g_pc = "post"
    /\ AttemptFails(r)
    /\ ~IsLastAttempt(attempt)
    /\ post_count' = post_count + 1
    /\ responses' = Append(responses, r)
    /\ sleeps' = Append(sleeps, Backoff(attempt))
    /\ g_pc' = "sleep"
    /\ UNCHANGED <<attempt, g_result>>

\* lines 168-171, the last attempt: raise AIServiceError
PostFailsLast(r) ==
    /\ g_pc = "post"
    /\ AttemptFails(r)
    /\ IsLastAttempt(attempt)
    /\ post_count' = post_count + 1
    /\ responses' = Append(responses, r)
    /\ g_result' = [kind |-> "AIServiceError", content |-> "-"]
    /\ g_pc' = "raised"
    /\ UNCHANGED <<attempt, sleeps>>

\* the sleep ends and range(3) yields the next attempt; were the range exhausted
\* the function would fall off the loop and return None
SleepDone ==
    /\ g_pc = "sleep"
    /\ attempt' = attempt + 1
    /\ IF attempt + 1 < Attempts
       THEN g_pc' = "post" /\ UNCHANGED g_result
       ELSE g_pc' = "returned" /\ g_result' = [kind |-> "returned", content |-> "None"]
    /\ UNCHANGED <<post_count, responses, sleeps>>

\* faulty variant: asyncio.CancelledError as a subclass of Exception, which it
\* was before Python 3.8
CaughtByExcept_CancelledToo(exception) == TRUE
\* line 168: `except Exception` does not catch asyncio.CancelledError, a
\* BaseException
CaughtByExcept(exception) == exception # "CancelledError"

\* the task is cancelled while it waits in client.post (line 152, inside the try)
\* or in asyncio.sleep (line 172, inside the handler): CancelledError is raised
\* at that await
Cancel ==
    /\ g_pc \in {"post", "sleep"}
    /\ IF g_pc = "post" /\ CaughtByExcept("CancelledError")
       THEN /\ post_count' = post_count + 1
            /\ responses' = Append(responses, Response("CancelledError", 0, "-", <<>>))
            /\ IF IsLastAttempt(attempt)
               THEN /\ g_result' = [kind |-> "AIServiceError", content |-> "-"]
                    /\ g_pc' = "raised"
                    /\ UNCHANGED sleeps
               ELSE /\ sleeps' = Append(sleeps, Backoff(attempt))
                    /\ g_pc' = "sleep"
                    /\ UNCHANGED g_result
            /\ UNCHANGED attempt
       ELSE /\ g_pc' = "cancelled"
            /\ g_result' = [kind |-> "CancelledError", content |-> "-"]
            /\ UNCHANGED <<attempt, post_count, responses, sleeps>>

\* ---------------------------------------------------------------------------
\* Reply parsing: AIService._parse_plan_response (ai_service.py:185-193)
\* ---------------------------------------------------------------------------
\* A reply is a Python value: None, or a str held as its sequence of characters
PyNone == [none |-> TRUE, chars |-> <<>>]
PyStr(chars) == [none |-> FALSE, chars |-> chars]

MaxPad == 1

\* the characters both str.strip() and the JSON grammar take for whitespace
Whitespace == {" ", "\n"}
WsRuns == UNION {[1..n -> Whitespace] : n \in 0..MaxPad}

\* the backquote character, spelled out
Tick == "backquote"
Fence == <<Tick, Tick, Tick, "j", "s", "o", "n">>
FenceClose == <<Tick, Tick, Tick>>
SliceFrom == 7
SliceTo == 3

\* the JSON documents of the model: an empty object and a number
JsonDocs == {<<"{", "}">>, <<"1">>}

RECURSIVE LStrip(_)
LStrip(s) == IF s # <<>> /\ Head(s) \in Whitespace THEN LStrip(Tail(s)) ELSE s

RECURSIVE RStrip(_)
RStrip(s) ==
    IF s # <<>> /\ s[Len(s)] \in Whitespace THEN RStrip(SubSeq(s, 1, Len(s) - 1)) ELSE s

\* str.strip()
Strip(s) == RStrip(LStrip(s))

\* str.startswith(prefix)
StartsWith(s, prefix) == Len(s) >= Len(prefix) /\ SubSeq(s, 1, Len(prefix)) = prefix

\* faulty variant: clean_response[7:]
Slice_KeepsTail(s, from, to) == SubSeq(s, from + 1, Len(s))
\* s[from:-to], with from >= 0 and to > 0
Slice(s, from, to) ==
    LET stop == IF Len(s) - to < 0 THEN 0 ELSE Len(s) - to
    IN  IF from >= stop THEN <<>> ELSE SubSeq(s, from + 1, stop)

\* json.loads(s): s is one JSON document with optional whitespace around it;
\* returns <<TRUE, the document>> or <<FALSE, <<>>>> for json.JSONDecodeError
json_loads(s) ==
    IF Strip(s) \in JsonDocs THEN <<TRUE, Strip(s)>> ELSE <<FALSE, <<>>>>

NoParse == [kind |-> "-", value |-> <<>>, raw_plan |-> PyNone]
ParsedResult(value) == [kind |-> "Parsed", value |-> value, raw_plan |-> PyNone]
\* faulty variant: {"raw_plan": clean_response, "structured": False}
RawResult_Stripped(response) ==
    [kind |-> "Raw", value |-> <<>>, raw_plan |-> PyStr(Strip(response.chars))]
\* line 193: {"raw_plan": response, "structured": False}
RawResult(response) == [kind |-> "Raw", value |-> <<>>, raw_plan |-> response]
Raised(exception) == [kind |-> exception, value |-> <<>>, raw_plan |-> PyNone]

\* lines 185-193
_parse_plan_response(response) ==
    IF response.none
    THEN Raised("AttributeError")      \* None.strip(): not a json.JSONDecodeError
    ELSE LET stripped == Strip(response.chars)
             clean_response == IF StartsWith(stripped, Fence)
                               THEN Slice(stripped, SliceFrom, SliceTo)
                               ELSE stripped
             loaded == json_loads(clean_response)
         IN  IF loaded[1] THEN ParsedResult(loaded[2]) ELSE RawResult(response)

\* The replies the parser is run on: JSON documents bare and fenced, with and
\* without whitespace around and inside; fences left open, or followed by other
\* text; text that is no JSON; and None
Padded(cores) == {a \o c \o b : a \in WsRuns, b \in WsRuns, c \in cores}
FencedDocs == {Fence \o a \o d \o b \o FenceClose : a \in WsRuns, b \in WsRuns, d \in JsonDocs}
OpenFences ==
    {Fence \o d \o t : d \in JsonDocs, t \in {<<>>, <<"x">>, <<"x", "x", "x">>, <<Tick, Tick>>}}
OtherTexts ==
    {<<>>, <<"x">>, <<"{">>, <<"1", "x">>, <<"{", "}", "x">>, <<"j", "s", "o", "n">>,
     Fence, Fence \o FenceClose, <<"x">> \o Fence \o <<"1">> \o FenceClose}
ReplyTexts == Padded(JsonDocs \cup FencedDocs \cup OpenFences \cup OtherTexts)
Replies == {PyStr(t) : t \in ReplyTexts} \cup {PyNone}

ParseIdle == parse_in = PyNone /\ parse_out = NoParse

ParsePlanResponse ==
    /\ parse_out = NoParse
    /\ parse_out' = _parse_plan_response(parse_in)
    /\ UNCHANGED parse_in

\* ---------------------------------------------------------------------------
\* Generation: AIService.evolve_plan (ai_service.py:135-144) and
\* AIService.generate_plan (ai_service.py:46-58)
\* ---------------------------------------------------------------------------
Methods == {"evolve_plan", "generate_plan"}

\* the action type whose active prompt the method asks for (lines 137, 48)
Category(method) ==
    IF method = "evolve_plan" THEN "plan_evolution" ELSE "plan_generation"

GenActionTypes == ActionTypes \cup {"plan_generation"}

\* what the method raises when get_active_prompt returned None: evolve_plan has
\* `if not prompt_template: raise ValueError` (lines 139-140); generate_plan has
\* no such test and calls None.format(**context) (line 56)
MissingTemplateError(method) ==
    IF method = "evolve_plan" THEN "ValueError" ELSE "AttributeError"

\* A prompt text is a format string: literal pieces and {name} replacement fields
Lit(text) == [field |-> FALSE, s |-> text]
Field(name) == [field |-> TRUE, s |-> name]

TemplateSegments(prompt_text) ==
    IF prompt_text = "t1"
    THEN <<Lit("Evolve "), Field("current_plan"), Lit(" using "), Field("suggestions")>>
    ELSE <<Lit("Plan for "), Field("goals"), Lit(" under "), Field("rules_text")>>

\* the context evolve_plan_from_analysis builds (plan_evolution.py:32-37)
EvolutionContext ==
    [current_plan |-> "<current_plan.jsonb_plan>",
     workout_analysis |-> "<analysis.jsonb_feedback>",
     suggestions |-> "<analysis.suggestions>",
     evolution_type |-> "workout_feedback"]

\* the context generate_plan builds from its arguments (lines 50-54)
PlanContext ==
    [rules_text |-> "<rules_text>", goals |-> "<goals>",
     current_fitness_level |-> "intermediate"]

\* evolve_plan({}), as the service's own test calls it
EmptyContext == [x \in {} |-> ""]

Contexts(method) ==
    IF method = "evolve_plan" THEN {EvolutionContext, EmptyContext} ELSE {PlanContext}

FieldsOf(segments) == {segments[i].s : i \in {j \in DOMAIN segments : segments[j].field}}

\* faulty variant: replacement fields are copied through, not replaced
Substitute_KeepsField(segment, context) == segment.s
\* one piece of the rendered text
Substitute(segment, context) ==
    IF segment.field THEN context[segment.s] ELSE segment.s

\* prompt_template.format(**context): KeyError on a field the context lacks
Format(segments, context) ==
    IF FieldsOf(segments) \subseteq DOMAIN context
    THEN <<TRUE, [i \in DOMAIN segments |-> Substitute(segments[i], context)]>>
    ELSE <<FALSE, <<>>>>

\* the message content as the Python value _make_ai_request returns
Content(c) ==
    IF c = NullContent THEN PyNone
    ELSE IF c = "c1" THEN PyStr(Fence \o <<"\n">> \o <<"{", "}">> \o <<"\n">> \o FenceClose)
    ELSE PyStr(<<"x", "\n">>)

NoCall == [method |-> "-", context |-> EmptyContext]

GenerateIdle ==
    /\ gen_pc = "idle"
    /\ gen_call = NoCall
    /\ gen_prompt = <<>>
    /\ gen_out = NoParse

\* the method is called: await self.prompt_manager.get_active_prompt(...) starts
GenerateCall(method, context) ==
    /\ gen_pc \in {"idle", "done"}
    /\ gen_pc' = "lookup"
    /\ gen_call' = [method |-> method, context |-> context]
    /\ gen_prompt' = <<>>
    /\ gen_out' = NoParse
    /\ g_pc' = "idle"
    /\ attempt' = 0
    /\ post_count' = 0
    /\ responses' = <<>>
    /\ sleeps' = <<>>
    /\ g_result' = NoResult

\* get_active_prompt answers; the template test, format and the start of
\* _make_ai_request follow without a suspension point (lines 137-143, 48-57)
GenerateLookup ==
    /\ gen_pc = "lookup"
    /\ LET found == get_active_prompt(prompts, Category(gen_call.method))
           formatted == Format(TemplateSegments(found[2]), gen_call.context)
       IN  IF found[1] # "text"
           THEN /\ gen_out' = Raised(IF found[1] = "None"
                                     THEN MissingTemplateError(gen_call.method)
                                     ELSE found[1])
                /\ gen_pc' = "done"
                /\ UNCHANGED <<gen_prompt, gvars>>
           ELSE IF ~formatted[1]
           THEN /\ gen_out' = Raised("KeyError")
                /\ gen_pc' = "done"
                /\ UNCHANGED <<gen_prompt, gvars>>
           ELSE /\ gen_prompt' = formatted[2]
                /\ gen_pc' = "request"
                /\ MakeAiRequest
                /\ UNCHANGED gen_out
    /\ UNCHANGED gen_call

\* _make_ai_request returned: return self._parse_plan_response(response)
GenerateParse ==
    /\ gen_pc = "request"
    /\ g_pc = "returned"
    /\ gen_out' = _parse_plan_response(Content(g_result.content))
    /\ gen_pc' = "done"
    /\ UNCHANGED <<gen_call, gen_prompt, gvars>>

\* _make_ai_request raised AIServiceError: nothing catches it
GenerateRaise ==
    /\ gen_pc = "request"
    /\ g_pc = "raised"
    /\ gen_out' = Raised(g_result.kind)
    /\ gen_pc' = "done"
    /\ UNCHANGED <<gen_call, gen_prompt, gvars>>

\* create_prompt_version run to completion on a table (prompt_manager.py:28-55)
CreateVersion(store, action_type, prompt_text) ==
    Append(ApplyDeactivate(store, DeactivateTargets(store, action_type)),
           NewPrompt(action_type, prompt_text, MaxVersion(store, action_type)))

MaxGenPrompts == 1

\* the prompts tables that at most n create_prompt_version calls leave behind
RECURSIVE StoresAfter(_)
StoresAfter(n) ==
    IF n = 0 THEN {<<>>}
    ELSE LET before == StoresAfter(n - 1)
         IN  before \cup {CreateVersion(st, a, t) :
                             st \in before, a \in GenActionTypes, t \in PromptTexts}

GenStores == StoresAfter(MaxGenPrompts)

\* ---------------------------------------------------------------------------
\* Plan evolution: PlanEvolutionService.evolve_plan_from_analysis
\* (plan_evolution.py:18-53) and the create_plan route (routes/plan.py:16-30)
\* ---------------------------------------------------------------------------
MaxPlans == 3

PlanIds(table) == 1..Len(table)

\* what one _make_ai_request call can end with, and whether it sent a request
GatewayOutcomes ==
    {[result |-> [kind |-> "returned", content |-> ExtractContent(r)], requested |-> TRUE] :
        r \in {q \in Responses : ~AttemptFails(q)}}
    \cup {[result |-> [kind |-> "AIServiceError", content |-> "-"], requested |-> TRUE]}

\* what one evolve_plan / generate_plan call can end with over a prompts table
\* that no one writes meanwhile: GenerateLookup, the request and GenerateParse /
\* GenerateRaise taken as one step
GenerateOutcomes(store, method, context) ==
    LET found == get_active_prompt(store, Category(method))
        formatted == Format(TemplateSegments(found[2]), context)
    IN  IF found[1] # "text"
        THEN {[out |-> Raised(IF found[1] = "None" THEN MissingTemplateError(method)
                              ELSE found[1]),
               requested |-> FALSE]}
        ELSE IF ~formatted[1]
        THEN {[out |-> Raised("KeyError"), requested |-> FALSE]}
        ELSE {[out |-> IF g.result.kind = "returned"
                       THEN _parse_plan_response(Content(g.result.content))
                       ELSE Raised(g.result.kind),
               requested |-> g.requested] : g \in GatewayOutcomes}

\* the analysis handed to evolve_plan_from_analysis: its approved flag and its
\* suggestions column (None, an empty JSON value, or a non-empty one)
Analyses == [approved : BOOLEAN, suggestions : {"None", "empty", "some"}]

\* faulty variant: the approved test of lines 24-25 left out
Skips_IgnoresApproved(analysis) == analysis.suggestions \in {"None", "empty"}
\* lines 24-29: if not analysis.approved: return None; if not suggestions: return None
Skips(analysis) == ~analysis.approved \/ analysis.suggestions \in {"None", "empty"}

\* faulty variant: version=current_plan.version
ForkVersion_Same(current_plan) == current_plan.version
\* line 44: version=current_plan.version + 1
ForkVersion(current_plan) == current_plan.version + 1

\* faulty variant: a result that is not structured is stored as an empty plan
PlanData_DropsRaw(new_plan_data) ==
    IF new_plan_data.kind = "Raw" THEN ParsedResult(<<"{", "}">>) ELSE new_plan_data
\* line 43: jsonb_plan=new_plan_data, the dict evolve_plan returned
PlanData(new_plan_data) == new_plan_data

\* lines 42-46: Plan(jsonb_plan=..., version=..., parent_plan_id=current_plan.id)
NewPlan(new_plan_data, current_plan) ==
    [jsonb_plan |-> PlanData(new_plan_data),
     version |-> ForkVersion(current_plan),
     parent_plan_id |-> current_plan.id]

\* faulty variant: the insert replaces an earlier child of the same parent
InsertPlan_ReplacesSibling(table, row) ==
    IF \E i \in PlanIds(table) : table[i].parent_plan_id = row.parent_plan_id
    THEN [i \in PlanIds(table) |->
             IF table[i].parent_plan_id = row.parent_plan_id THEN row ELSE table[i]]
    ELSE Append(table, row)
\* lines 48-49: self.db.add(new_plan); await self.db.commit().  The plans table
\* has no uniqueness constraint beside its primary key (models/plan.py)
InsertPlan(table, row) == Append(table, row)

\* faulty variant: evolve_plan's AIServiceError is caught and an empty plan stored
Propagates_ExceptAIServiceError(exception) == exception # "AIServiceError"
\* line 39: the await stands in no try block: every exception leaves the call
Propagates(exception) == TRUE

\* the jsonb_plan a client posts to create_plan
ClientPlan == [kind |-> "Client", value |-> <<"{", "}">>, raw_plan |-> PyNone]
\* PlanCreate.version: Field(..., gt=0) (schemas/plan.py)
ClientVersions == 1..2

NoAnalysis == [approved |-> FALSE, suggestions |-> "None"]
NoEvolve == [pc |-> "idle", analysis |-> NoAnalysis,
             current_plan |-> [id |-> 0, version |-> 0], new_plan_data |-> NoParse]
NoEvRet == [op |-> "-", analysis |-> NoAnalysis, result |-> "-", plan_id |-> 0,
            inserts |-> 0, commits |-> 0, requested |-> FALSE]

\* the call's analysis, what it gave back (None, a Plan or an exception), and
\* the db.add calls, db.commit calls and requests it made
EvolveReturn(analysis, result, plan_id, writes, requested) ==
    [op |-> "evolve_plan_from_analysis", analysis |-> analysis,
     result |-> result, plan_id |-> plan_id,
     inserts |-> writes, commits |-> writes, requested |-> requested]

EvolveIdle ==
    /\ plans = <<>>
    /\ ev = [s \in Sessions |-> NoEvolve]
    /\ ev_ret = NoEvRet

\* routes/plan.py create_plan: the row takes version and parent_plan_id from the
\* request body; the foreign key wants the parent to exist
CreatePlan(version, parent_plan_id) ==
    /\ Len(plans) < MaxPlans
    /\ parent_plan_id \in {0} \cup PlanIds(plans)
    /\ plans' = InsertPlan(plans, [jsonb_plan |-> ClientPlan, version |-> version,
                                   parent_plan_id |-> parent_plan_id])
    /\ ev_ret' = NoEvRet
    /\ UNCHANGED ev

\* lines 24-29: the call returns None
EvolveSkip(s, analysis, plan_id) ==
    /\ ev[s].pc = "idle"
    /\ plan_id \in PlanIds(plans)
    /\ Skips(analysis)
    /\ ev_ret' = EvolveReturn(analysis, "None", 0, 0, FALSE)
    /\ UNCHANGED <<plans, ev>>

\* lines 24-39: the tests pass, the context is built, evolve_plan is awaited
EvolveCall(s, analysis, plan_id) ==
    /\ ev[s].pc = "idle"
    /\ plan_id \in PlanIds(plans)
    /\ ~Skips(analysis)
    /\ ev' = [ev EXCEPT ![s] = [pc |-> "generate",
                                analysis |-> analysis,
                                current_plan |-> [id |-> plan_id,
                                                  version |-> plans[plan_id].version],
                                new_plan_data |-> NoParse]]
    /\ ev_ret' = NoEvRet
    /\ UNCHANGED plans

\* line 39: evolve_plan raises
EvolveRaise(s) ==
    /\ ev[s].pc = "generate"
    /\ \E o \in GenerateOutcomes(prompts, "evolve_plan", EvolutionContext) :
          /\ o.out.kind \notin {"Parsed", "Raw"}
          /\ IF Propagates(o.out.kind)
             THEN /\ ev' = [ev EXCEPT ![s] = NoEvolve]
                  /\ ev_ret' = EvolveReturn(ev[s].analysis, o.out.kind, 0, 0,
                                            o.requested)
             ELSE /\ ev' = [ev EXCEPT ![s].pc = "commit",
                                      ![s].new_plan_data = RawResult(PyNone)]
                  /\ ev_ret' = NoEvRet
    /\ UNCHANGED plans

\* line 39: evolve_plan returns new_plan_data
EvolveGenerated(s) ==
    /\ ev[s].pc = "generate"
    /\ \E o \in GenerateOutcomes(prompts, "evolve_plan", EvolutionContext) :
          /\ o.out.kind \in {"Parsed", "Raw"}
          /\ ev' = [ev EXCEPT ![s].pc = "commit", ![s].new_plan_data = o.out]
    /\ ev_ret' = NoEvRet
    /\ UNCHANGED plans

\* lines 42-53: the new Plan is added, committed, refreshed and returned
EvolveCommit(s) ==
    /\ ev[s].pc = "commit"
    /\ Len(plans) < MaxPlans
    /\ plans' = InsertPlan(plans, NewPlan(ev[s].new_plan_data, ev[s].current_plan))
    /\ ev' = [ev EXCEPT ![s] = NoEvolve]
    /\ ev_ret' = EvolveReturn(ev[s].analysis, "Plan", Len(plans'), 1, TRUE)

\* the prompts tables evolve_plan is run over: no plan_evolution prompt, or the
\* one a create_prompt_version call has left
EvolveStores ==
    {<<>>} \cup {CreateVersion(<<>>, "plan_evolution", t) : t \in PromptTexts}

\* ---------------------------------------------------------------------------
\* Approval of an analysis (routes/workouts.py:130-154, tui/services/
\* workout_service.py:186-202) and the plan history (plan_evolution.py:55-65)
\* ---------------------------------------------------------------------------
MaxAnalyses == 1

\* the session of the request: get_db gives every request its own
RouteSession == "s1"

NoApprove == [pc |-> "idle", analysis_id |-> 0, was_approved |-> FALSE,
              new_plan_id |-> 0, commits |-> 0]
NoApRet == [op |-> "-", status |-> 0, analysis_id |-> 0, was_approved |-> FALSE,
            new_plan_id |-> 0, commits |-> 0, wrote |-> FALSE]
NoPlanRead == [op |-> "-", plan_id |-> 0, rows |-> <<>>]

ApproveIdle ==
    /\ analyses = <<>>
    /\ ap = NoApprove
    /\ ap_ret = NoApRet
    /\ plan_read = NoPlanRead

\* what the call gave back: the response status (404 and 500 for the exceptions),
\* the record and its stored flag when the call began, new_plan_id, the db.commit
\* calls made, and whether a commit changed a row
ApproveReturn(op, status, analysis_id, was_approved, new_plan_id, commits, wrote) ==
    [op |-> op, status |-> status, analysis_id |-> analysis_id,
     was_approved |-> was_approved, new_plan_id |-> new_plan_id,
     commits |-> commits, wrote |-> wrote]

\* faulty variant: the flag is left as it is
Approved_Unchanged(analysis) == analysis
\* faulty variant: the flag is flipped
Approved_Toggles(analysis) == [analysis EXCEPT !.approved = ~@]
\* workouts.py:140, workout_service.py:193: analysis.approved = True
Approved(analysis) == [analysis EXCEPT !.approved = TRUE]

\* faulty variant: a record that is approved already starts no evolution
EvolutionWanted_OnlyPending(analysis) ==
    analysis.suggestions = "some" /\ analysis.plan_id # 0 /\ ~analysis.approved
\* workouts.py:143: if analysis.suggestions and analysis.workout.plan_id
EvolutionWanted(analysis) ==
    analysis.suggestions = "some" /\ analysis.plan_id # 0

\* faulty variant: the commit of the new plan leaves the flag in the session
Flushed_PlanOnly(table, analysis_id) == table
\* plan_evolution.py:49: db.commit() flushes the whole session, the record
\* changed at workouts.py:140 with it
Flushed(table, analysis_id) == [table EXCEPT ![analysis_id] = Approved(@)]

\* workouts.py:100-113: the analysis task stores a record, approved by default
\* False; plan_id is the plan_id of the record's workout (0 for none)
CreateAnalysis(suggestions, plan_id) ==
    /\ Len(analyses) < MaxAnalyses
    /\ plan_id \in {0} \cup PlanIds(plans)
    /\ analyses' = Append(analyses, [approved |-> FALSE, suggestions |-> suggestions,
                                     plan_id |-> plan_id])
    /\ ap_ret' = NoApRet
    /\ UNCHANGED <<ap, evars>>

\* routes/plan.py create_plan, from another client
ApproveCreatePlan(version, parent_plan_id) ==
    /\ CreatePlan(version, parent_plan_id)
    /\ ap_ret' = NoApRet
    /\ UNCHANGED <<analyses, ap>>

\* workouts.py:136-138: no such record
ApproveNotFound(analysis_id) ==
    /\ ap.pc = "idle"
    /\ analysis_id \notin DOMAIN analyses
    /\ ap_ret' = ApproveReturn("approve_analysis", 404, analysis_id, FALSE, 0, 0, FALSE)
    /\ UNCHANGED <<analyses, ap, evars>>

\* workouts.py:136-143, 153-154: no evolution; the flag is set and committed
ApprovePlain(analysis_id) ==
    /\ ap.pc = "idle"
    /\ analysis_id \in DOMAIN analyses
    /\ ~EvolutionWanted(analyses[analysis_id])
    /\ analyses' = [analyses EXCEPT ![analysis_id] = Approved(@)]
    /\ ap_ret' = ApproveReturn("approve_analysis", 200, analysis_id,
                               analyses[analysis_id].approved, 0, 1,
                               analyses' # analyses)
    /\ UNCHANGED <<ap, evars>>

\* workouts.py:136-149: the flag is set on the session's object, the plan is
\* read and evolve_plan_from_analysis is awaited with that object
ApproveEvolveCall(analysis_id) ==
    /\ ap.pc = "idle"
    /\ analysis_id \in DOMAIN analyses
    /\ EvolutionWanted(analyses[analysis_id])
    /\ EvolveCall(RouteSession,
                  [approved |-> Approved(analyses[analysis_id]).approved,
                   suggestions |-> analyses[analysis_id].suggestions],
                  analyses[analysis_id].plan_id)
    /\ ap' = [NoApprove EXCEPT !.pc = "evolving", !.analysis_id = analysis_id,
                               !.was_approved = analyses[analysis_id].approved]
    /\ ap_ret' = NoApRet
    /\ UNCHANGED analyses

\* workouts.py:147: the exception of evolve_plan_from_analysis leaves the route
\* before any commit; get_db closes the session, which rolls it back
ApproveEvolveRaise ==
    /\ ap.pc = "evolving"
    /\ EvolveRaise(RouteSession)
    /\ IF ev'[RouteSession].pc = "idle"
       THEN /\ ap' = NoApprove
            /\ ap_ret' = ApproveReturn("approve_analysis", 500, ap.analysis_id,
                                       ap.was_approved, 0, ap.commits, FALSE)
       ELSE UNCHANGED <<ap, ap_ret>>
    /\ UNCHANGED analyses

\* plan_evolution.py:39: evolve_plan returns inside the route's call
ApproveEvolveGenerated ==
    /\ ap.pc = "evolving"
    /\ EvolveGenerated(RouteSession)
    /\ UNCHANGED <<analyses, ap, ap_ret>>

\* plan_evolution.py:42-53 inside the route's call: one commit stores the new
\* plan and the flag
ApproveEvolveCommit ==
    /\ ap.pc = "evolving"
    /\ EvolveCommit(RouteSession)
    /\ analyses' = Flushed(analyses, ap.analysis_id)
    /\ ap' = [ap EXCEPT !.pc = "route_commit", !.new_plan_id = Len(plans'),
                        !.commits = @ + 1]
    /\ UNCHANGED ap_ret

\* workouts.py:150-151: the route commits again and answers with new_plan_id
ApproveRouteCommit ==
    /\ ap.pc = "route_commit"
    /\ analyses' = [analyses EXCEPT ![ap.analysis_id] = Approved(@)]
    /\ ap' = NoApprove
    /\ ap_ret' = ApproveReturn("approve_analysis", 200, ap.analysis_id,
                               ap.was_approved, ap.new_plan_id, ap.commits + 1, TRUE)
    /\ UNCHANGED evars

\* workout_service.py:186-202: the flag is set and committed; a missing record
\* ends in an Exception
TuiApprove(analysis_id) ==
    /\ ap.pc = "idle"
    /\ IF analysis_id \in DOMAIN analyses
       THEN /\ analyses' = [analyses EXCEPT ![analysis_id] = Approved(@)]
            /\ ap_ret' = ApproveReturn("WorkoutService.approve_analysis", 200,
                                       analysis_id, analyses[analysis_id].approved,
                                       0, 1, analyses' # analyses)
       ELSE /\ ap_ret' = ApproveReturn("WorkoutService.approve_analysis", 500,
                                       analysis_id, FALSE, 0, 0, FALSE)
            /\ UNCHANGED analyses
    /\ UNCHANGED <<ap, evars>>

\* faulty variant: the query follows parent_plan_id upwards as well
HistoryRows_WithParent(table, plan_id) ==
    {i \in PlanIds(table) :
        \/ i = plan_id
        \/ table[i].parent_plan_id = plan_id
        \/ plan_id \in PlanIds(table) /\ table[plan_id].parent_plan_id = i}
\* plan_evolution.py:57-61: where (Plan.id == plan_id) | (Plan.parent_plan_id == plan_id)
HistoryRows(table, plan_id) ==
    {i \in PlanIds(table) : i = plan_id \/ table[i].parent_plan_id = plan_id}

\* plan_evolution.py:62: order_by(Plan.version): every order the database may
\* return (rows of equal version come in either order)
OrderedByVersion(table, ids) ==
    {q \in [1..Cardinality(ids) -> ids] :
        /\ \A i, j \in DOMAIN q : i # j => q[i] # q[j]
        /\ \A i, j \in DOMAIN q : i < j => table[q[i]].version <= table[q[j]].version}

get_plan_evolution_history(table, plan_id) ==
    OrderedByVersion(table, HistoryRows(table, plan_id))

\* plan_evolution.py:55-65: the call returns result.scalars().all()
GetPlanEvolutionHistory(plan_id) ==
    /\ \E q \in get_plan_evolution_history(plans, plan_id) :
          plan_read' = [op |-> "get_plan_evolution_history", plan_id |-> plan_id,
                        rows |-> q]
    /\ UNCHANGED evars

\* ---------------------------------------------------------------------------
\* Garmin sync: WorkoutSyncService.sync_recent_activities (workout_sync.py:22-91)
\* ---------------------------------------------------------------------------
MaxSyncRuns == 2
MaxActivities == 2
MaxRetries == 3

SyncErrors == {"GarminAuthError", "GarminAPIError", "Exception"}

\* faulty variant: one handler for every exception
StatusFor_AlwaysError(exception) == "error"
\* lines 74-91: the three handlers, in order
StatusFor(exception) ==
    IF exception = "GarminAuthError" THEN "auth_error"
    ELSE IF exception = "GarminAPIError" THEN "api_error"
    ELSE "error"

NoSync == [pc |-> "idle", todo |-> 0, attempt |-> 0, synced_count |-> 0, pending |-> 0]
NoSyncRet == [result |-> "-", value |-> 0]

\* the log row of the run in flight: the last one added
CurrentLog(db) == db.logs[Len(db.logs)]

\* sync_log gets status (and activities_synced) and db.commit() runs: the row and
\* the workouts added so far reach the tables
CommitLog(db, status, activities_synced, pending) ==
    [logs |-> [db.logs EXCEPT ![Len(db.logs)] =
                   [status |-> status, activities_synced |-> activities_synced]],
     workouts |-> db.workouts + pending]

SyncInit ==
    /\ sync_db = [logs |-> <<>>, workouts |-> 0]
    /\ sync = NoSync
    /\ sync_ret = NoSyncRet

\* lines 26-28: the log row is added with status in_progress and committed
SyncStart ==
    /\ sync.pc = "idle"
    /\ Len(sync_db.logs) < MaxSyncRuns
    /\ sync_db' = [sync_db EXCEPT !.logs =
                      Append(@, [status |-> "in_progress", activities_synced |-> 0])]
    /\ sync' = [NoSync EXCEPT !.pc = "fetch"]
    /\ sync_ret' = NoSyncRet

\* lines 74-91: the handler sets the status, commits and raises again
SyncFail(exception) ==
    /\ sync_db' = CommitLog(sync_db, StatusFor(exception),
                            CurrentLog(sync_db).activities_synced, sync.pending)
    /\ sync' = NoSync
    /\ sync_ret' = [result |-> exception, value |-> 0]

\* lines 34-36: garmin_service.get_activities answers with n activities, or raises
\* GarminAuthError (authenticate) or GarminAPIError (the client call)
SyncFetched(n) ==
    /\ sync.pc = "fetch"
    /\ sync' = [sync EXCEPT !.pc = "activity", !.todo = n]
    /\ UNCHANGED <<sync_db, sync_ret>>

SyncFetchFails(exception) ==
    /\ sync.pc = "fetch"
    /\ exception \in {"GarminAuthError", "GarminAPIError"}
    /\ SyncFail(exception)

\* lines 39-42: the next activity is one the workouts table has already
SyncSkipExisting ==
    /\ sync.pc = "activity"
    /\ sync.todo > 0
    /\ sync' = [sync EXCEPT !.todo = @ - 1]
    /\ UNCHANGED <<sync_db, sync_ret>>

\* lines 39-46: the next activity is new; the retry loop for its details starts
SyncNewActivity ==
    /\ sync.pc = "activity"
    /\ sync.todo > 0
    /\ sync' = [sync EXCEPT !.pc = "details", !.attempt = 0]
    /\ UNCHANGED <<sync_db, sync_ret>>

\* lines 48-63: the details arrive, the workout is parsed and added
SyncDetailsAdded ==
    /\ sync.pc = "details"
    /\ sync' = [sync EXCEPT !.pc = "activity", !.todo = @ - 1,
                            !.synced_count = @ + 1, !.pending = @ + 1]
    /\ UNCHANGED <<sync_db, sync_ret>>

\* lines 50-53: get_activity_details raises a Garmin error before the last attempt
SyncDetailsRetry(exception) ==
    /\ sync.pc = "details"
    /\ exception \in {"GarminAuthError", "GarminAPIError"}
    /\ sync.attempt # MaxRetries - 1
    /\ sync' = [sync EXCEPT !.pc = "sleep"]
    /\ UNCHANGED <<sync_db, sync_ret>>

\* line 53: the sleep ends, range(max_retries) gives the next attempt
SyncSleepDone ==
    /\ sync.pc = "sleep"
    /\ sync' = [sync EXCEPT !.pc = "details", !.attempt = @ + 1]
    /\ UNCHANGED <<sync_db, sync_ret>>

\* lines 50-52: a Garmin error on the last attempt is raised again; lines 40, 57,
\* 60-61: any other exception (a missing key, a start time that does not parse)
\* is caught by no inner handler
SyncActivityFails(exception) ==
    /\ sync.pc = "details"
    /\ exception \in SyncErrors
    /\ exception = "Exception" \/ sync.attempt = MaxRetries - 1
    /\ SyncFail(exception)

\* lines 66-72: every activity is handled: status success, the count, commit
SyncSucceeds ==
    /\ sync.pc = "activity"
    /\ sync.todo = 0
    /\ sync_db' = CommitLog(sync_db, "success", sync.synced_count, sync.pending)
    /\ sync' = NoSync
    /\ sync_ret' = [result |-> "returned", value |-> sync.synced_count]

\* ---------------------------------------------------------------------------
\* Specifications
\* ---------------------------------------------------------------------------
Init ==
    /\ PromptInit /\ GatewayInit /\ ParseIdle /\ GenerateIdle /\ EvolveIdle
    /\ SyncInit /\ ApproveIdle

\* create_prompt_version and activate_prompt_version calls from concurrent
\* sessions, statement by statement
Next ==
    \/ \E s \in Sessions, a \in ActionTypes, t \in PromptTexts :
          CreateDeactivate(s, a, t) /\ UNCHANGED <<gvars, xvars>>
    \/ \E s \in Sessions : CreateSelectMax(s) /\ UNCHANGED <<gvars, xvars>>
    \/ \E s \in Sessions : CreateCommit(s) /\ UNCHANGED <<gvars, xvars>>
    \/ \E s \in Sessions, i \in PromptIds : ActivateGet(s, i) /\ UNCHANGED <<gvars, xvars>>
    \/ \E s \in Sessions, i \in PromptIds : ActivateNotFound(s, i) /\ UNCHANGED <<gvars, xvars>>
    \/ \E s \in Sessions : ActivateDeactivate(s) /\ UNCHANGED <<gvars, xvars>>
    \/ \E s \in Sessions : ActivateCommit(s) /\ UNCHANGED <<gvars, xvars>>

Spec == Init /\ [][Next]_vars

\* The same calls and the two reads, each run to completion before the next starts
NextSeq ==
    \/ \E s \in Sessions, a \in ActionTypes, t \in PromptTexts :
          AllIdle /\ CreateDeactivate(s, a, t) /\ UNCHANGED <<gvars, xvars>>
    \/ \E s \in Sessions : CreateSelectMax(s) /\ UNCHANGED <<gvars, xvars>>
    \/ \E s \in Sessions : CreateCommit(s) /\ UNCHANGED <<gvars, xvars>>
    \/ \E s \in Sessions, i \in PromptIds : AllIdle /\ ActivateGet(s, i) /\ UNCHANGED <<gvars, xvars>>
    \/ \E s \in Sessions, i \in PromptIds : AllIdle /\ ActivateNotFound(s, i) /\ UNCHANGED <<gvars, xvars>>
    \/ \E s \in Sessions : ActivateDeactivate(s) /\ UNCHANGED <<gvars, xvars>>
    \/ \E s \in Sessions : ActivateCommit(s) /\ UNCHANGED <<gvars, xvars>>
    \/ \E a \in ActionTypes : AllIdle /\ GetActive(a) /\ UNCHANGED <<gvars, xvars>>
    \/ \E a \in ActionTypes : AllIdle /\ GetHistory(a) /\ UNCHANGED <<gvars, xvars>>

SpecSeq == Init /\ [][NextSeq]_vars

\* One _make_ai_request call after another against an unreliable endpoint
NextGateway ==
    \/ MakeAiRequest /\ UNCHANGED <<pvars, xvars>>
    \/ \E r \in Responses : PostSucceeds(r) /\ UNCHANGED <<pvars, xvars>>
    \/ \E r \in Responses : PostFailsRetry(r) /\ UNCHANGED <<pvars, xvars>>
    \/ \E r \in Responses : PostFailsLast(r) /\ UNCHANGED <<pvars, xvars>>
    \/ SleepDone /\ UNCHANGED <<pvars, xvars>>

SpecGateway == Init /\ [][NextGateway]_vars

\* The same calls, with the task cancelled at any of its awaits
NextCancel ==
    \/ NextGateway
    \/ Cancel /\ UNCHANGED <<pvars, xvars>>

SpecCancel == Init /\ [][NextCancel]_vars

\* _parse_plan_response applied to each reply
InitParse ==
    /\ PromptInit /\ GatewayInit /\ GenerateIdle /\ EvolveIdle /\ SyncInit /\ ApproveIdle
    /\ parse_in \in Replies
    /\ parse_out = NoParse

NextParse == ParsePlanResponse /\ UNCHANGED <<pvars, gvars, nvars, evars, yvars>>

SpecParse == InitParse /\ [][NextParse]_vars

\* the prompt sessions at rest on a table that earlier calls have filled
PromptAtRest(store) ==
    /\ prompts = store
    /\ pc = [s \in Sessions |-> "idle"]
    /\ args = [s \in Sessions |-> NoArgs]
    /\ deact = [s \in Sessions |-> {}]
    /\ max_version = [s \in Sessions |-> 0]
    /\ ret = NoRet
    /\ last_read = NoRead
    /\ last_active = [a \in ActionTypes |->
                        IF ActiveRowsOf(store, a) = {} THEN 0
                        ELSE CHOOSE i \in ActiveRowsOf(store, a) : TRUE]

\* evolve_plan and generate_plan calls, one after another, over each prompts table
InitGenerate ==
    /\ \E store \in GenStores : PromptAtRest(store)
    /\ GatewayInit /\ ParseIdle /\ GenerateIdle /\ EvolveIdle /\ SyncInit /\ ApproveIdle

NextGenerate ==
    \/ \E m \in Methods : \E c \in Contexts(m) : GenerateCall(m, c) /\ UNCHANGED <<pvars, rvars, evars, yvars>>
    \/ GenerateLookup /\ UNCHANGED <<pvars, rvars, evars, yvars>>
    \/ \E r \in Responses : PostSucceeds(r) /\ UNCHANGED <<pvars, rvars, nvars, evars, yvars>>
    \/ \E r \in Responses : PostFailsRetry(r) /\ UNCHANGED <<pvars, rvars, nvars, evars, yvars>>
    \/ \E r \in Responses : PostFailsLast(r) /\ UNCHANGED <<pvars, rvars, nvars, evars, yvars>>
    \/ SleepDone /\ UNCHANGED <<pvars, rvars, nvars, evars, yvars>>
    \/ GenerateParse /\ UNCHANGED <<pvars, rvars, evars, yvars>>
    \/ GenerateRaise /\ UNCHANGED <<pvars, rvars, evars, yvars>>

SpecGenerate == InitGenerate /\ [][NextGenerate]_vars

\* create_plan requests and evolve_plan_from_analysis calls from concurrent
\* sessions, over each prompts table
InitEvolve ==
    /\ \E store \in EvolveStores : PromptAtRest(store)
    /\ GatewayInit /\ ParseIdle /\ GenerateIdle /\ EvolveIdle /\ SyncInit /\ ApproveIdle

NextEvolve ==
    \/ \E v \in ClientVersions, p \in 0..MaxPlans :
          CreatePlan(v, p) /\ UNCHANGED <<pvars, gvars, rvars, nvars, yvars>>
    \/ \E s \in Sessions, a \in Analyses, p \in 1..MaxPlans :
          EvolveSkip(s, a, p) /\ UNCHANGED <<pvars, gvars, rvars, nvars, yvars>>
    \/ \E s \in Sessions, a \in Analyses, p \in 1..MaxPlans :
          EvolveCall(s, a, p) /\ UNCHANGED <<pvars, gvars, rvars, nvars, yvars>>
    \/ \E s \in Sessions : EvolveRaise(s) /\ UNCHANGED <<pvars, gvars, rvars, nvars, yvars>>
    \/ \E s \in Sessions : EvolveGenerated(s) /\ UNCHANGED <<pvars, gvars, rvars, nvars, yvars>>
    \/ \E s \in Sessions : EvolveCommit(s) /\ UNCHANGED <<pvars, gvars, rvars, nvars, yvars>>

SpecEvolve == InitEvolve /\ [][NextEvolve]_vars

\* sync_recent_activities runs, one after another, against every answer of Garmin
ovars == <<pvars, gvars, rvars, nvars, evars, avars, lvars>>

NextSync ==
    \/ SyncStart /\ UNCHANGED ovars
    \/ \E n \in 0..MaxActivities : SyncFetched(n) /\ UNCHANGED ovars
    \/ \E e \in SyncErrors : SyncFetchFails(e) /\ UNCHANGED ovars
    \/ SyncSkipExisting /\ UNCHANGED ovars
    \/ SyncNewActivity /\ UNCHANGED ovars
    \/ SyncDetailsAdded /\ UNCHANGED ovars
    \/ \E e \in SyncErrors : SyncDetailsRetry(e) /\ UNCHANGED ovars
    \/ SyncSleepDone /\ UNCHANGED ovars
    \/ \E e \in SyncErrors : SyncActivityFails(e) /\ UNCHANGED ovars
    \/ SyncSucceeds /\ UNCHANGED ovars

\* approve_analysis requests one after another, create_plan requests, stored
\* analyses and history reads, over each prompts table
InitApprove == InitEvolve

bvars == <<pvars, gvars, rvars, nvars, svars, lvars>>

NextApprove ==
    \/ \E u \in {"None", "empty", "some"}, p \in 0..MaxPlans :
          CreateAnalysis(u, p) /\ UNCHANGED bvars
    \/ \E v \in {1}, p \in {0} : ApproveCreatePlan(v, p) /\ UNCHANGED bvars
    \/ \E i \in 1..MaxAnalyses + 1 : ApproveNotFound(i) /\ UNCHANGED bvars
    \/ \E i \in 1..MaxAnalyses : ApprovePlain(i) /\ UNCHANGED bvars
    \/ \E i \in 1..MaxAnalyses : ApproveEvolveCall(i) /\ UNCHANGED bvars
    \/ ApproveEvolveRaise /\ UNCHANGED bvars
    \/ ApproveEvolveGenerated /\ UNCHANGED bvars
    \/ ApproveEvolveCommit /\ UNCHANGED bvars
    \/ ApproveRouteCommit /\ UNCHANGED bvars
    \/ \E i \in 1..MaxAnalyses + 1 : TuiApprove(i) /\ UNCHANGED bvars

SpecApprove == InitApprove /\ [][NextApprove]_vars

\* create_plan requests, evolve_plan_from_analysis calls one after another and
\* get_plan_evolution_history calls, over each prompts table
InitLineage == InitEvolve

cvars == <<pvars, gvars, rvars, nvars, svars, avars>>

NextLineage ==
    \/ \E v \in ClientVersions, p \in 0..MaxPlans :
          CreatePlan(v, p) /\ plan_read' = NoPlanRead /\ UNCHANGED cvars
    \/ \E a \in Analyses, p \in 1..MaxPlans :
          EvolveSkip(RouteSession, a, p) /\ plan_read' = NoPlanRead /\ UNCHANGED cvars
    \/ \E a \in Analyses, p \in 1..MaxPlans :
          EvolveCall(RouteSession, a, p) /\ plan_read' = NoPlanRead /\ UNCHANGED cvars
    \/ EvolveRaise(RouteSession) /\ plan_read' = NoPlanRead /\ UNCHANGED cvars
    \/ EvolveGenerated(RouteSession) /\ plan_read' = NoPlanRead /\ UNCHANGED cvars
    \/ EvolveCommit(RouteSession) /\ plan_read' = NoPlanRead /\ UNCHANGED cvars
    \/ \E p \in 1..MaxPlans + 1 : GetPlanEvolutionHistory(p) /\ UNCHANGED cvars

SpecLineage == InitLineage /\ [][NextLineage]_vars

\* a run that has started goes on: the event loop resumes it after every await
SpecSync == Init /\ [][NextSync]_vars /\ WF_vars(NextSync)

\* ---------------------------------------------------------------------------
\* Properties of the prompt store
\* ---------------------------------------------------------------------------
ActiveCount(store, action_type) == Cardinality(ActiveRowsOf(store, action_type))

\* C1: when create_prompt_version and activate_prompt_version calls run one at a
\* time, every action type has at most one row with active = true (SpecSeq).
C1_AtMostOneActive ==
    \A a \in ActionTypes : ActiveCount(prompts, a) <= 1

C1_Witness ==
    /\ AllIdle
    /\ ret.op = "activate" /\ ret.val = 200
    /\ \E a \in ActionTypes :
          /\ Cardinality(RowsOf(prompts, a)) >= 2
          /\ ActiveCount(prompts, a) = 1

\* The active rows of the call's action type that session s's pending UPDATE did
\* not hit and that the call does not activate itself
MissedActive(s) ==
    ActiveRowsOf(prompts, args[s].action_type) \ (deact[s] \cup {args[s].prompt_id})

\* C2: with interleaved calls the commit of a call whose UPDATE ran before another
\* call's row became active leaves both rows active: the action type ends with
\* more than one active row, and both calls have completed (Spec).
C2_RaceLeavesTwoActive ==
    [][\A s \in Sessions :
          (/\ pc[s] \in {"create_commit", "activate_commit"}
           /\ pc'[s] = "idle"
           /\ MissedActive(s) # {})
          => ActiveCount(prompts', args[s].action_type) >= 2]_vars

C2_Witness ==
    /\ AllIdle
    /\ \E a \in ActionTypes : ActiveCount(prompts, a) >= 2

\* C3: after calls that run one at a time, get_active_prompt(action_type) returns
\* the text of the row most recently made active for the action type, and None
\* exactly when no row of the action type was ever made active (SpecSeq).
C3_GetActiveReturnsLastActivated ==
    last_read.op = "get_active" =>
        LET r == last_active[last_read.action_type]
        IN  last_read.text = IF r = 0 THEN <<"None">>
                             ELSE <<"text", prompts[r].prompt_text>>

C3_Witness ==
    /\ last_read.op = "get_active"
    /\ LET a == last_read.action_type
           r == last_active[a]
       IN  /\ r # 0
           /\ last_read.text = <<"text", prompts[r].prompt_text>>
           /\ \E i \in RowsOf(prompts, a) :
                 /\ prompts[i].version > prompts[r].version
                 /\ prompts[i].prompt_text # prompts[r].prompt_text

\* C4: get_prompt_history(action_type) returns every row of the action type once
\* and no other row, in descending version order, and changes no row (SpecSeq).
C4_HistoryDescendingNoSideEffect ==
    [][(last_read'.op = "get_history" /\ last_read' # last_read) =>
          LET q == last_read'.rows
              a == last_read'.action_type
          IN  /\ {q[i] : i \in DOMAIN q} = {i \in RowIds(prompts) : prompts[i].action_type = a}
              /\ Len(q) = Cardinality({q[i] : i \in DOMAIN q})
              /\ \A i, j \in DOMAIN q :
                    i < j => prompts[q[i]].version > prompts[q[j]].version
              /\ prompts' = prompts
              /\ UNCHANGED <<pc, args, deact, max_version, last_active>>]_vars

C4_Witness ==
    /\ last_read.op = "get_history"
    /\ Len(last_read.rows) >= 2
    /\ prompts[last_read.rows[1]].version = 2
    /\ prompts[last_read.rows[2]].version = 1
    /\ \E i \in RowIds(prompts) : prompts[i].action_type # last_read.action_type

\* C5: versions start at 1 and grow per action type: a row created later has a
\* greater version than every earlier row of its action type, so no two rows of
\* one action type share a version, for every interleaving of calls (Spec).
C5_VersionsIncreasePerActionType ==
    \A j \in RowIds(prompts) :
        /\ prompts[j].version >= 1
        /\ (\A i \in RowIds(prompts) :
               i < j /\ prompts[i].action_type = prompts[j].action_type
               => prompts[i].version < prompts[j].version)
        /\ ((\A i \in RowIds(prompts) :
               i < j => prompts[i].action_type # prompts[j].action_type)
            => prompts[j].version = 1)

\* C6: activate_prompt_version of an existing row leaves it active and every
\* other row of its action type inactive; rows of other action types, every
\* version and text, and the number of rows stay as they were (SpecSeq).
C6_ActivateFrame ==
    [][\A s \in Sessions :
          (pc[s] = "activate_commit" /\ pc'[s] = "idle") =>
              LET id == args[s].prompt_id
                  a == prompts[id].action_type
              IN  /\ Len(prompts') = Len(prompts)
                  /\ prompts'[id].active
                  /\ \A i \in RowIds(prompts) :
                        /\ prompts'[i].action_type = prompts[i].action_type
                        /\ prompts'[i].version = prompts[i].version
                        /\ prompts'[i].prompt_text = prompts[i].prompt_text
                        /\ (i # id /\ prompts[i].action_type = a) => ~prompts'[i].active
                        /\ prompts[i].action_type # a => prompts'[i].active = prompts[i].active]_vars

C6_Witness ==
    /\ ret.op = "activate" /\ ret.val = 200
    /\ Len(prompts) = 3
    /\ \E id, i, k \in RowIds(prompts) :
          /\ id = ret.arg
          /\ prompts[id].active
          /\ prompts[i].action_type = prompts[id].action_type
          /\ prompts[i].version > prompts[id].version
          /\ ~prompts[i].active
          /\ prompts[k].action_type # prompts[id].action_type
          /\ prompts[k].active

\* C7: activate_prompt_version with an id that names no row answers not found
\* (404), changes no row, leaves no pending update and commits nothing (Spec).
C7_ActivateNotFound ==
    [][(ret'.op = "activate" /\ ret'.arg \notin RowIds(prompts)) =>
          /\ ret'.val = 404
          /\ ret'.commits = 0
          /\ prompts' = prompts
          /\ UNCHANGED <<pc, args, deact, max_version, last_active>>]_vars

C7_Witness ==
    /\ ret.op = "activate" /\ ret.val = 404
    /\ ret.arg \notin RowIds(prompts)
    /\ \E a \in ActionTypes : ActiveCount(prompts, a) >= 1

\* ---------------------------------------------------------------------------
\* Properties of the retry loop
\* ---------------------------------------------------------------------------
FailedAttempts == {i \in DOMAIN responses : AttemptFails(responses[i])}
AllFailed == FailedAttempts = DOMAIN responses
Min(x, y) == IF x <= y THEN x ELSE y

\* C8: when every attempt fails, whatever the mix of failures, AIServiceError is
\* raised after exactly 3 attempts: not after fewer, and there is no fourth.
C8_AllFailRaisesAfterThree ==
    /\ post_count = Len(responses)
    /\ post_count <= 3
    /\ (AllFailed /\ post_count = 3) =>
          (g_pc = "raised" /\ g_result.kind = "AIServiceError")
    /\ (AllFailed /\ post_count < 3) => g_pc \in {"idle", "post", "sleep"}
    /\ g_pc = "raised" => (AllFailed /\ post_count = 3)

C8_Witness ==
    /\ g_pc = "raised"
    /\ post_count = 3
    /\ responses[1].kind = "ConnectError"
    /\ responses[2].kind = "answer" /\ responses[2].status = 500
    /\ responses[3].kind = "answer" /\ responses[3].status = 200
    /\ responses[3].body = "no_choices_key"

\* C9: when the k-th attempt is the first to succeed, the call makes exactly k
\* attempts (k <= 3), returns the content of the k-th response and makes no
\* attempt after it.
C9_FirstSuccessReturns ==
    /\ \A i \in DOMAIN responses : i < Len(responses) => AttemptFails(responses[i])
    /\ (responses # <<>> /\ ~AttemptFails(responses[Len(responses)])) =>
          /\ g_pc = "returned"
          /\ g_result = [kind |-> "returned",
                         content |-> responses[Len(responses)].choices[1]]
          /\ post_count = Len(responses)
          /\ post_count <= 3
    /\ g_pc = "returned" => ~AttemptFails(responses[Len(responses)])

C9_Witness ==
    /\ g_pc = "returned"
    /\ post_count = 3
    /\ Cardinality(FailedAttempts) = 2
    /\ responses[3].choices = <<"c2", "c1">>
    /\ g_result.content = "c2"

\* C10: the call sleeps only after a failed attempt that is not the last: 1 s
\* after the first failure, 2 s after the second, and at no other time.
C10_BackoffDelays ==
    /\ Len(sleeps) = Min(Cardinality(FailedAttempts), 2)
    /\ \A i \in DOMAIN sleeps : sleeps[i] = 2 ^ (i - 1)
    /\ g_pc = "sleep" => (AllFailed /\ Len(sleeps) = Len(responses))

C10_Witness ==
    /\ g_pc = "raised"
    /\ sleeps = <<1, 2>>

\* ---------------------------------------------------------------------------
\* Reply parsing (C11, C12)
\* ---------------------------------------------------------------------------
\* C11: whenever _make_ai_request has returned a reply's content, whatever that
\* content is, the generation method returns Parsed or Raw and raises nothing
\* (SpecGenerate).
C11_AcceptedReplyNeverAborts ==
    (gen_pc = "done" /\ g_pc = "returned") => gen_out.kind \in {"Parsed", "Raw"}

\* C12: a str reply that is a JSON document, bare or inside a ```json fence, with
\* any whitespace around the document and around the fence, parses to Parsed
\* with that document's value; a reply without the fence prefix that is no JSON
\* document gives Raw; and Raw always carries the reply exactly as it came
\* (SpecParse).
C12_ParseBareAndFencedJson ==
    (parse_out # NoParse /\ ~parse_in.none) =>
        /\ parse_out.kind \in {"Parsed", "Raw"}
        /\ \A d \in JsonDocs, a \in WsRuns, b \in WsRuns :
              parse_in.chars = a \o d \o b => parse_out = ParsedResult(d)
        /\ \A d \in JsonDocs, a \in WsRuns, b \in WsRuns, i \in WsRuns, j \in WsRuns :
              parse_in.chars = a \o Fence \o i \o d \o j \o FenceClose \o b
                  => parse_out = ParsedResult(d)
        /\ (~StartsWith(Strip(parse_in.chars), Fence) /\ Strip(parse_in.chars) \notin JsonDocs)
              => parse_out.kind = "Raw"
        /\ parse_out.kind = "Raw" => parse_out.raw_plan = parse_in

C12_Witness ==
    /\ parse_in = PyStr(<<" ">> \o Fence \o <<"\n">> \o <<"{", "}">> \o <<"\n">> \o FenceClose)
    /\ parse_out = ParsedResult(<<"{", "}">>)

\* ---------------------------------------------------------------------------
\* Generation (C13, C14)
\* ---------------------------------------------------------------------------
\* Every way a generation call ends is among GenerateOutcomes, the one-step
\* account of the call that the evolution actions use (SpecGenerate).
GenerateOutcomesCoverCalls ==
    gen_pc = "done" =>
        [out |-> gen_out, requested |-> post_count > 0]
            \in GenerateOutcomes(prompts, gen_call.method, gen_call.context)

\* C13: a generation call that finds no active template for its action type ends
\* with the configuration error (ValueError, "No active ... prompt found") and
\* has sent no request (SpecGenerate).
C13_NoTemplateConfigError ==
    (gen_pc = "done" /\ get_active_prompt(prompts, Category(gen_call.method)) = <<"None">>)
        => (gen_out = Raised("ValueError") /\ post_count = 0)

EvolveEnds == ev_ret'.op = "evolve_plan_from_analysis"

\* the row a fork of plan p with content data must add
ChildOf(table, p, data) ==
    [jsonb_plan |-> data, version |-> table[p].version + 1, parent_plan_id |-> p]

Commits(s) == ev[s].pc = "commit" /\ ev'[s].pc = "idle"

C17_RawResultForks ==
    [][\A s \in Sessions :
          (Commits(s) /\ ev[s].new_plan_data.kind = "Raw") =>
             /\ ev[s].new_plan_data.raw_plan \in {Content(c) : c \in Contents}
             /\ plans' = Append(plans, ChildOf(plans, ev[s].current_plan.id,
                                               RawResult(ev[s].new_plan_data.raw_plan)))
             /\ ev_ret'.result = "Plan" /\ ev_ret'.plan_id = Len(plans')]_vars

C17_Witness ==
    /\ ev_ret.result = "Plan"
    /\ plans[ev_ret.plan_id].jsonb_plan = RawResult(PyStr(<<"x", "\n">>))
    /\ plans[ev_ret.plan_id].parent_plan_id \in PlanIds(plans)
    /\ plans[ev_ret.plan_id].version
          = plans[plans[ev_ret.plan_id].parent_plan_id].version + 1

\* C18: a call goes on to its insert only with what a returned reply parsed to;
\* when generation raises, AIServiceError among the errors, the call ends there
\* with that error, having added and committed nothing, and the plans table is
\* as before (SpecEvolve).
C18_GenerationErrorPropagates ==
    [][\A s \in Sessions :
          ev[s].pc = "generate" =>
             /\ ev'[s].pc = "commit" =>
                   /\ ev'[s].new_plan_data.kind \in {"Parsed", "Raw"}
                   /\ ev'[s].new_plan_data \in
                         {_parse_plan_response(Content(c)) : c \in Contents}
                   /\ plans' = plans
             /\ ev'[s].pc = "idle" =>
                   /\ ev_ret'.result \notin {"Plan", "None", "-"}
                   /\ ev_ret'.inserts = 0 /\ ev_ret'.commits = 0
                   /\ plans' = plans]_vars

C18_Witness ==
    /\ ev_ret.op = "evolve_plan_from_analysis"
    /\ ev_ret.result = "AIServiceError"
    /\ ev_ret.requested
    /\ Len(plans) > 0
    /\ \A i \in PlanIds(plans) : plans[i].parent_plan_id = 0

\* C19: in every state of the plans table a plan with a parent has the parent's
\* version plus one and a plan without a parent has version 1 (SpecEvolve).
C19_VersionLineage ==
    \A i \in PlanIds(plans) :
        IF plans[i].parent_plan_id # 0
        THEN plans[i].version = plans[plans[i].parent_plan_id].version + 1
        ELSE plans[i].version = 1

\* C20: with calls for the same plan in flight together, each call that reaches
\* its insert adds exactly one row, with the parent's version plus one and the
\* parent's id, and returns it whatever children the parent already has; no
\* step changes or removes a row that was there (SpecEvolve).
C20_ConcurrentForksOnlyInsert ==
    [][/\ \A i \in PlanIds(plans) : i \in PlanIds(plans') /\ plans'[i] = plans[i]
       /\ \A s \in Sessions :
             Commits(s) =>
                /\ Len(plans') = Len(plans) + 1
                /\ plans'[Len(plans')].version = plans[ev[s].current_plan.id].version + 1
                /\ plans'[Len(plans')].parent_plan_id = ev[s].current_plan.id
                /\ ev_ret'.result = "Plan"]_vars

C20_Witness ==
    /\ ev_ret.result = "Plan"
    /\ \E s \in Sessions :
          /\ ev[s].pc = "commit"
          /\ ev[s].current_plan.id = plans[ev_ret.plan_id].parent_plan_id

\* ---------------------------------------------------------------------------
\* Reads under interleaving, and what a Parsed value was parsed from (C28, C29)
\* ---------------------------------------------------------------------------
\* C28: in every prompts table that interleaved create_prompt_version and
\* activate_prompt_version calls leave committed, get_active_prompt returns a
\* prompt text or None for every action type: it never raises (Spec).
C28_GetActiveNeverFails ==
    \A a \in ActionTypes : get_active_prompt(prompts, a)[1] \in {"None", "text"}

\* the reply's whole payload: the trimmed text, without the fence markers when it
\* opens with the ```json marker and ends with the closing fence
WholePayloads(chars) ==
    LET trimmed == Strip(chars)
    IN  IF StartsWith(trimmed, Fence)
        THEN IF Len(trimmed) >= Len(Fence) + Len(FenceClose)
                /\ SubSeq(trimmed, Len(trimmed) - Len(FenceClose) + 1, Len(trimmed)) = FenceClose
             THEN {SubSeq(trimmed, Len(Fence) + 1, Len(trimmed) - Len(FenceClose))}
             ELSE {}
        ELSE {trimmed}

\* C29: whenever the parser returns Parsed(v), v is the JSON document that the
\* reply's whole payload holds; a reply that opens with the ```json marker and
\* does not end with the closing fence never gives Parsed (SpecParse).
C29_ParsedFromWholePayload ==
    (parse_out.kind = "Parsed" /\ ~parse_in.none) =>
        \E payload \in WholePayloads(parse_in.chars) :
            /\ Strip(payload) \in JsonDocs
            /\ parse_out.value = Strip(payload)

\* ---------------------------------------------------------------------------
\* Cancellation (C26)
\* ---------------------------------------------------------------------------
\* C26: a cancellation that arrives while _make_ai_request waits in client.post
\* or in asyncio.sleep ends the call with CancelledError: it is not recorded
\* among the attempts, it is never turned into AIServiceError, and once the call
\* is cancelled no further post is made and no further sleep started
\* (SpecCancel).
C26_CancelStopsRetries ==
    [][/\ \A i \in DOMAIN responses' : responses'[i].kind # "CancelledError"
       /\ (g_pc \in {"post", "sleep"} /\ g_pc' = "cancelled") =>
             /\ g_result'.kind = "CancelledError"
             /\ post_count' = post_count /\ responses' = responses /\ sleeps' = sleeps
       /\ (g_pc \in {"post", "sleep"} /\ g_result'.kind = "AIServiceError") =>
             (Len(responses') = Attempts /\ post_count' = post_count + 1)
       /\ g_pc = "cancelled" =>
             (g_pc' = "cancelled" /\ post_count' = post_count /\ sleeps' = sleeps)]_vars

C26_Witness ==
    /\ g_pc = "cancelled"
    /\ g_result.kind = "CancelledError"
    /\ post_count = 1
    /\ Len(sleeps) = 1

\* ---------------------------------------------------------------------------
\* Garmin sync (C27)
\* ---------------------------------------------------------------------------
\* the logs of the runs that have ended
EndedLogs ==
    IF sync.pc = "idle" THEN DOMAIN sync_db.logs
    ELSE DOMAIN sync_db.logs \ {Len(sync_db.logs)}

C22_ApprovedNeverReverts ==
    [][\A i \in DOMAIN analyses :
           analyses[i].approved => (i \in DOMAIN analyses' /\ analyses'[i].approved)]_vars

\* the record was approved before the call that just ended approved it again
C22_Witness ==
    /\ ap_ret.op = "WorkoutService.approve_analysis"
    /\ ap_ret.status = 200
    /\ ap_ret.was_approved
    /\ analyses[ap_ret.analysis_id].approved

\* C23: approve_analysis on a record with suggestions whose workout is linked to a
\* plan starts an evolution whether or not the record is approved already, and
\* such a call that does not end in the exception of a failed generation adds a
\* new plan row, child of the linked plan (SpecApprove).
C23_ApproveForksEachCall ==
    [][/\ \A i \in DOMAIN analyses :
             ~(/\ ap.pc = "idle"
               /\ ap_ret'.op = "approve_analysis"
               /\ ap_ret'.analysis_id = i
               /\ analyses[i].suggestions = "some"
               /\ analyses[i].plan_id # 0)
       /\ (ap.pc = "idle" /\ ap'.pc = "evolving") =>
             /\ analyses[ap'.analysis_id].suggestions = "some"
             /\ analyses[ap'.analysis_id].plan_id # 0
       /\ (ap.pc = "evolving" /\ ap'.pc # "evolving") =>
             \/ ap_ret'.status = 500 /\ plans' = plans
             \/ /\ Len(plans') = Len(plans) + 1
                /\ plans'[Len(plans')].parent_plan_id = analyses[ap.analysis_id].plan_id
                /\ ap'.new_plan_id = Len(plans')
       /\ (ap.pc = "route_commit" /\ ap'.pc = "idle") =>
             ap_ret'.status = 200 /\ ap_ret'.new_plan_id = ap.new_plan_id]_vars

\* the second call on the one record has added a second child of the linked plan
C23_Witness ==
    /\ ap_ret.op = "approve_analysis"
    /\ ap_ret.status = 200
    /\ ap_ret.was_approved
    /\ ap_ret.new_plan_id = 3
    /\ plans[2].parent_plan_id = analyses[ap_ret.analysis_id].plan_id
    /\ plans[3].parent_plan_id = analyses[ap_ret.analysis_id].plan_id

\* C24 (as stated): every approve call for a stored record, approved already or not, with an
\* evolution or without, ends with the record stored as approved and at least
\* one commit made (SpecApprove).
C24_ApproveAlwaysCommits ==
    (ap_ret.op # "-" /\ ap_ret.analysis_id \in DOMAIN analyses) =>
        /\ analyses[ap_ret.analysis_id].approved
        /\ ap_ret.commits >= 1

\* C24 (amended): an approve call for a stored record that returns, approved
\* already or not, with an evolution or without, ends with the record stored as
\* approved and at least one commit made; a call that ends in the exception of
\* its evolution has made no commit and leaves the stored flag as it found it
\* (SpecApprove).
C24_ApproveCommitsWhenItReturns ==
    (ap_ret.op # "-" /\ ap_ret.analysis_id \in DOMAIN analyses) =>
        IF ap_ret.status = 200
        THEN /\ analyses[ap_ret.analysis_id].approved
             /\ ap_ret.commits >= 1
        ELSE /\ ap_ret.op = "approve_analysis"
             /\ ap_ret.status = 500
             /\ ap_ret.commits = 0
             /\ analyses[ap_ret.analysis_id].approved = ap_ret.was_approved

\* a record approved already is approved again, without an evolution, and the
\* call commits
C24_Witness ==
    /\ ap_ret.op = "approve_analysis"
    /\ ap_ret.status = 200
    /\ ap_ret.was_approved
    /\ ap_ret.new_plan_id = 0
    /\ ap_ret.commits = 1

\* C25: a call that ends has made exactly one commit when it wrote a row and none
\* when it wrote nothing (SpecApprove: approve_analysis and, inside it,
\* evolve_plan_from_analysis).
C25_OneCommitPerWritingCall ==
    /\ ap_ret.op # "-" => ap_ret.commits = (IF ap_ret.wrote THEN 1 ELSE 0)
    /\ ev_ret.op # "-" => ev_ret.commits = (IF ev_ret.inserts > 0 THEN 1 ELSE 0)

\* C30: while the approval's evolution has committed nothing, the stored flag is
\* the one the call found and no plan of the call is stored; once the plan is
\* stored the record is stored as approved; a call that ends in the exception of
\* a failed generation has committed nothing: the stored flag is the one it found
\* (SpecApprove).
C30_FlagAndForkTogether ==
    /\ ap.pc = "evolving" =>
          /\ ap.commits = 0
          /\ ap.new_plan_id = 0
          /\ analyses[ap.analysis_id].approved = ap.was_approved
    /\ ap.pc = "route_commit" =>
          /\ ap.new_plan_id \in PlanIds(plans)
          /\ plans[ap.new_plan_id].parent_plan_id = analyses[ap.analysis_id].plan_id
          /\ analyses[ap.analysis_id].approved
    /\ (ap_ret.op = "approve_analysis" /\ ap_ret.status = 500) =>
          /\ ap_ret.commits = 0
          /\ ap_ret.new_plan_id = 0
          /\ analyses[ap_ret.analysis_id].approved = ap_ret.was_approved
    /\ (ap_ret.op = "approve_analysis" /\ ap_ret.new_plan_id # 0) =>
          analyses[ap_ret.analysis_id].approved

\* the plan of a record that was pending is stored and the route has not yet
\* made its own commit
C30_Witness ==
    /\ ap.pc = "route_commit"
    /\ ~ap.was_approved
    /\ analyses[ap.analysis_id].approved
    /\ ap.new_plan_id = Len(plans)

\* a pending record's approval ended in the exception of a failed generation
C30_WitnessFailed ==
    /\ ap_ret.op = "approve_analysis"
    /\ ap_ret.status = 500
    /\ ~ap_ret.was_approved
    /\ ~analyses[ap_ret.analysis_id].approved

====
